---- MODULE Spec2Model ----
(***************************************************************************)
(* django_cached_field: a cached, lazily recalculated model field.         *)
(*                                                                         *)
(* One database row (the record) carries, for one cached field FIELD, the  *)
(* columns cached_FIELD ("val"), FIELD_recalculation_needed ("flag") and   *)
(* FIELD_expires_after ("exp").  Every process of Proc holds its own       *)
(* in-memory model instance of that row.  The operations of                *)
(* src/django_cached_field/__init__.py are translated statement by         *)
(* statement; an operation is cut into steps exactly at its database       *)
(* accesses, because the ORM calls are the points where another process    *)
(* can act on the same row.                                                *)
(***************************************************************************)
EXTENDS Integers, Sequences, FiniteSets, TLC

\* ---------------------------------------------------------------- bounds
MaxTime == 2        \* the clock runs over 0..MaxTime
MaxSrc  == 2        \* the source data (and the calculated value) is in 1..MaxSrc
MaxJobs == 2        \* at most MaxJobs submitted, not yet executed, celery jobs

\* ------------------------------------------------------------ the values
\* Python's None, for the nullable columns and for "no return value".
None == -1

\* The processes, each with its own instance of the record.  Clients are
\* the processes of the single-client specification Spec; Requests are the
\* processes whose operations the concurrent specifications interleave;
\* Workers are the celery workers of SpecLive, which run jobs and nothing
\* else.
Proc == {1, 2, 3}
Clients == {1}
Requests == {1, 2}
Workers == {3}

\* An expiration as the caller or the settings give it: None, a relative
\* offset (timedelta / relativedelta) or an absolute datetime.
NoExpiration == [kind |-> "none", v |-> 0]
Rel(d)       == [kind |-> "rel", v |-> d]
Abs(t)       == [kind |-> "abs", v |-> t]

\* The expiration arguments the callers pass.
ExpirationArgs == {NoExpiration, Rel(0), Rel(2), Abs(1)}

\* The values settings.CACHED_FIELD_DEFAULT_EXPIRATION takes.
DefaultExpirations == {NoExpiration, Rel(1)}

\* and_recalculate as passed, and settings.CACHED_FIELD_EAGER_RECALCULATION
\* ("unset": the settings module has no such attribute).  The setting is
\* looked up by every call of _flag_FIELD_as_stale (lines 23-24); the model
\* draws what the lookup finds with the call.
Tri == {"None", "True", "False"}
EagerSettings == {"unset", "True", "False"}

\* Python truthiness of an expiration: None and a zero offset are falsy,
\* a datetime is always truthy.
Truthy(e) == e.kind = "abs" \/ (e.kind = "rel" /\ e.v # 0)

\* The empty keyword dictionary.
EmptyKwargs == <<>>

\* What an operation gives its caller: a value (Python's None included), a
\* keyword dictionary, or the exception of the calculation method.
Value(v)  == [kind |-> "value", value |-> v, kwargs |-> EmptyKwargs]
Kwargs(k) == [kind |-> "kwargs", value |-> None, kwargs |-> k]
Raised    == [kind |-> "raised", value |-> None, kwargs |-> EmptyKwargs]

VARIABLES
    settings,   \* [DEFAULT_EXPIRATION]: django.conf.settings
    field,      \* [temporal_triggers]: the CachedFieldMixin instance
    db,         \* the row: [val, flag, exp]
    src,        \* the data calculate_FIELD() computes from
    now,        \* timezone.now()
    queue,      \* the jobs given to offload_cache_recalculation.delay, in order
    mem,        \* mem[p]: the model instance of process p, [val, flag, exp]
    pc,         \* pc[p]: where process p stands in its operation
    op,         \* op[p]: the operation of p, its arguments and what it started from
    kw,         \* kw[p]: the local variable kwargs of the operation of p
    ret,        \* ret[p]: what the operation returned (or Raised)
    upd,        \* upd[p]: the .update(**kwargs) calls the operation issued so far
    calls,      \* calls[p]: the invocations of calculate_FIELD() by the operation
    jobs,       \* jobs[p]: how many jobs the operation gave to celery
    writer,     \* the process whose update wrote cached_FIELD last (0: nobody yet)
    trail,      \* what the operations completed last were, as far as a scenario follows them
    audit,      \* whether the operations record the history val0, exp0 and the trail
    model,      \* model[p]: the model class through which process p loaded its instance
    mark        \* the flagging that is followed, and what was calculated after it

vars == <<settings, field, db, src, now, queue, mem, pc, op, kw, ret, upd, calls,
          jobs, writer, trail, audit, model, mark>>

\* ------------------------------------------------------- pure operators

\* QuerySet.update(**kwargs) on the row: the named columns are overwritten,
\* the others are left alone; an empty kwargs changes nothing.
Update(row, kwargs) ==
    [c \in DOMAIN row |-> IF c \in DOMAIN kwargs THEN kwargs[c] ELSE row[c]]

\* The user's calculate_FIELD(): a function of the record's source data.
calculate_FIELD(data) == data

\* _flag_FIELD_as_stale, lines 21-24: the explicit argument wins, then the
\* setting if the settings module has it, then True.
ResolveAndRecalculate(and_recalculate, eager) ==
    IF and_recalculate # "None" THEN and_recalculate = "True"
    ELSE IF eager # "unset" THEN eager = "True"
    ELSE TRUE

\* Mutants of FlagKwargs: the flag is set whether or not the row has it; the
\* test of the flag read from the row is inverted.
FlagKwargs_Always(already_flagged_for_recalculation) == [flag |-> TRUE]
FlagKwargs_Inverted(already_flagged_for_recalculation) ==
    IF already_flagged_for_recalculation THEN [flag |-> TRUE] ELSE EmptyKwargs

\* _flag_FIELD_as_stale, lines 27-32: the change set.
FlagKwargs(already_flagged_for_recalculation) ==
    IF already_flagged_for_recalculation THEN EmptyKwargs ELSE [flag |-> TRUE]

\* Mutants of PreClearKwargs: the first update clears the cached value with
\* the flag; the first update clears nothing.
PreClearKwargs_WithValue == [flag |-> FALSE, val |-> None]
PreClearKwargs_Nothing == EmptyKwargs

\* _recalculate_FIELD, lines 66-67: the optimistic clearing of the flag.
PreClearKwargs == [flag |-> FALSE]

\* Mutants of RecalcKwargs: lines 72-73 are missing; the flag is in the
\* change set also with commit; the change set without commit flags the
\* instance.
RecalcKwargs_NoFlag(val, commit) == [val |-> val]
RecalcKwargs_AlwaysFlag(val, commit) == [val |-> val, flag |-> FALSE]
RecalcKwargs_FlagTrue(val, commit) ==
    IF commit THEN [val |-> val] ELSE [val |-> val, flag |-> TRUE]

\* _recalculate_FIELD, lines 71-73: the change set before the expiration.
RecalcKwargs(val, commit) ==
    IF commit THEN [val |-> val] ELSE [val |-> val, flag |-> FALSE]

\* Mutant of NeedsNewExpiration: an expiration is assigned by every
\* recalculation.
NeedsNewExpiration_Always(temporal_triggers, expires, t) == temporal_triggers

\* _recalculate_FIELD, lines 74-76: is a new expiration to be assigned?
NeedsNewExpiration(temporal_triggers, expires, t) ==
    temporal_triggers /\ (expires = None \/ expires < t)

\* Mutant of ResolveExpiration: the offset is stored without now().
ResolveExpiration_NoClock(expiration, default, t) ==
    LET e == IF Truthy(expiration) THEN expiration ELSE default
    IN  IF e.kind = "none" THEN None ELSE e.v

\* _recalculate_FIELD lines 77-79 and _expire_FIELD_after lines 48-50:
\* the argument or else the default; an offset is added to now().
ResolveExpiration(expiration, default, t) ==
    LET e == IF Truthy(expiration) THEN expiration ELSE default
    IN  IF e.kind = "none" THEN None
        ELSE IF e.kind = "abs" THEN e.v
        ELSE t + e.v

\* _recalculate_FIELD, lines 71-81: the change set of a recalculation that
\* calculated val at time t on instance m.
RecalculatedKwargs(temporal_triggers, m, expiration, default, val, commit, t) ==
    IF NeedsNewExpiration(temporal_triggers, m.exp, t)
    THEN [exp |-> ResolveExpiration(expiration, default, t)]
            @@ RecalcKwargs(val, commit)
    ELSE RecalcKwargs(val, commit)

\* _recalculate_FIELD, lines 69-70 and 80: the instance after it.
RecalculatedInstance(temporal_triggers, m, expiration, default, val, t) ==
    [val |-> val, flag |-> FALSE,
     exp |-> IF NeedsNewExpiration(temporal_triggers, m.exp, t)
             THEN ResolveExpiration(expiration, default, t)
             ELSE m.exp]

\* Mutant of AfterFlagging: the update and the job also without commit.
AfterFlagging_Always(commit) == "flagged"

\* _flag_FIELD_as_stale, line 33: with commit the operation goes on to the
\* update (and the job), without it returns.
AfterFlagging(commit) == IF commit THEN "flagged" ELSE "done"

\* Mutants of EffectiveFlag: the read looks at the expiration only; the read
\* looks at the flag only; the read recalculates also when the cached value
\* is None.
EffectiveFlag_OrNone(temporal_triggers, m, t) ==
    m.val = None \/ m.flag \/ (temporal_triggers /\ m.exp # None /\ m.exp < t)
EffectiveFlag_ExpirationOnly(temporal_triggers, m, t) ==
    temporal_triggers /\ m.exp # None /\ m.exp < t
EffectiveFlag_FlagOnly(temporal_triggers, m, t) == m.flag

\* _get_FIELD, lines 90-93: the flag the read acts on.
EffectiveFlag(temporal_triggers, m, t) ==
    IF temporal_triggers
    THEN m.flag \/ (m.exp # None /\ m.exp < t)
    ELSE m.flag

\* CachedFieldMixin.__init__, line 158.
TemporalTriggers(temporal_triggers, default) == temporal_triggers \/ Truthy(default)

\* ------------------------------------------------------------- job naming
\* The _meta of the model classes, as Django sets it: Article is a concrete
\* model of the application news and ArticleProxy a proxy of it in the same
\* application; FeaturedArticle is a proxy of the proxy ArticleProxy (its
\* proxy_for_model is the class it was declared on); BlogArticle is a
\* proxy of Article declared in the application blog (its app_label
\* is that of the module it is declared in).
Meta == [Article         |-> [app_label |-> "news", object_name |-> "Article",
                              proxy |-> FALSE, proxy_for_model |-> "Article"],
         ArticleProxy    |-> [app_label |-> "news", object_name |-> "ArticleProxy",
                              proxy |-> TRUE, proxy_for_model |-> "Article"],
         FeaturedArticle |-> [app_label |-> "news", object_name |-> "FeaturedArticle",
                              proxy |-> TRUE, proxy_for_model |-> "ArticleProxy"],
         BlogArticle     |-> [app_label |-> "blog", object_name |-> "BlogArticle",
                              proxy |-> TRUE, proxy_for_model |-> "Article"]]

\* The model classes an instance of the record can be loaded through.
Classes == DOMAIN Meta

\* The class through which each process loads its instance, where the
\* classes are not what is looked at.
ClassOf(p) == IF p = 1 THEN "ArticleProxy" ELSE "Article"

\* The primary key of the record, and the field's celery_async_kwargs.
Pk == 1
CeleryAsyncKwargs == [countdown |-> 5]

\* trigger_cache_recalculation, lines 105-109: the arguments of .delay().
JobFor(cls) ==
    LET obj_name == IF Meta[cls].proxy
                    THEN Meta[Meta[cls].proxy_for_model].object_name
                    ELSE Meta[cls].object_name
    IN  [app_label |-> Meta[cls].app_label, obj_name |-> obj_name,
         pk |-> Pk, kwargs |-> CeleryAsyncKwargs]

\* ------------------------------------------------------------ bookkeeping
\* No scenario is being followed.
NoTrail == [tag |-> "", val |-> None]

\* No flagging is followed.
NoMark == [on |-> FALSE, db |-> FALSE, calc |-> [p \in Proc |-> FALSE]]

\* op[p] of a process between operations.  name, commit, recalc (the
\* resolved and_recalculate) and expiration are the operation and its
\* arguments.  The rest is history: flag0 is the instance's flag when the
\* operation began (for the flag operation, the flag read from the row),
\* val0 the cached value a read began with, exp0 the expiration a direct
\* recalculation began with, after the trail at that time, reflagged
\* whether the row's flag was true when the final update of the
\* recalculation was issued, during whether the update of the flagging was
\* issued while a committed recalculation of another process was between
\* its first and its final update; val0, exp0 and after are kept under
\* audit only.
NoOp == [name |-> "none", commit |-> FALSE, recalc |-> FALSE,
         expiration |-> NoExpiration, flag0 |-> FALSE, val0 |-> None,
         exp0 |-> None, after |-> NoTrail, reflagged |-> FALSE,
         during |-> FALSE]

\* A committed recalculation of process p has issued its first update and
\* not yet its final one.
InFlight(p) == pc[p] \in {"calc", "write"} /\ op[p].commit

\* Jobs that operations in flight are still going to submit.
PendingJobs == Cardinality({q \in Proc : pc[q] = "flagged" /\ op[q].recalc})

\* The trail once an operation of process p has completed with result r.
\* The scenarios followed are: a committed flagging without recalculation
\* ("flagNR"); and, without temporal triggers, a committed flagging that
\* found the flag false and took its and_recalculate from the default
\* ("flagE"), then a read by the same instance while the job still waits
\* ("flagE.read", with the value the read left in the row), then the job.
TrailAfter(p, r, newdb, newqueue) ==
    LET o == op[p]
    IN  IF ~audit THEN NoTrail
        ELSE IF o.name = "flag" /\ o.commit /\ ~o.recalc
        THEN [tag |-> "flagNR", val |-> None]
        ELSE IF /\ o.name = "flag" /\ o.commit /\ o.recalc /\ ~o.flag0
                /\ ~field.temporal_triggers
        THEN [tag |-> "flagE", val |-> None]
        ELSE IF /\ o.name = "read" /\ o.after.tag = "flagE" /\ r # Raised
                /\ newqueue # <<>>
        THEN [tag |-> "flagE.read", val |-> newdb.val]
        ELSE NoTrail

\* ------------------------------------------------------------------ Init
\* A record as models.Model creates it: the flag column defaults to True
\* (line 190), the value and the expiration are null; every process has
\* loaded it.
Init ==
    /\ settings \in [DEFAULT_EXPIRATION : DefaultExpirations]
    /\ \E t \in BOOLEAN :
          field = [temporal_triggers |->
                      TemporalTriggers(t, settings.DEFAULT_EXPIRATION)]
    /\ db = [val |-> None, flag |-> TRUE, exp |-> None]
    /\ src = 1
    /\ now = 0
    /\ queue = <<>>
    /\ mem = [p \in Proc |-> db]
    /\ pc = [p \in Proc |-> "idle"]
    /\ op = [p \in Proc |-> NoOp]
    /\ kw = [p \in Proc |-> EmptyKwargs]
    /\ ret = [p \in Proc |-> Value(None)]
    /\ upd = [p \in Proc |-> <<>>]
    /\ calls = [p \in Proc |-> <<>>]
    /\ jobs = [p \in Proc |-> 0]
    /\ writer = 0
    /\ trail = NoTrail
    /\ audit = TRUE
    /\ model = [p \in Proc |-> ClassOf(p)]
    /\ mark = NoMark

\* --------------------------------------------------------------- actions

\* timezone.now() advances.
Tick ==
    /\ now < MaxTime
    /\ now' = now + 1
    /\ UNCHANGED <<settings, field, db, src, queue, mem, pc, op, kw, ret, upd,
                   calls, jobs, writer, trail, audit, model, mark>>

\* The data the calculation method reads changes (which ends every scenario
\* the trail follows).
ChangeSource ==
    /\ \E d \in (1..MaxSrc) \ {src} : src' = d
    /\ trail' = NoTrail
    /\ op' = [p \in Proc |-> [op[p] EXCEPT !.after = NoTrail]]
    /\ UNCHANGED <<settings, field, db, now, queue, mem, pc, kw, ret, upd,
                   calls, jobs, writer, audit, model, mark>>

\* Model.objects.get(pk=...): process p loads a fresh instance.
Reload(p) ==
    /\ pc[p] = "idle"
    /\ mem[p] # db
    /\ mem' = [mem EXCEPT ![p] = db]
    /\ UNCHANGED <<settings, field, db, src, now, queue, pc, op, kw, ret, upd,
                   calls, jobs, writer, trail, audit, model, mark>>

\* The start of an operation of process p on instance m: what it is and
\* what it starts from.
Started(p, name, commit, recalc, expiration, m, flag0) ==
    /\ op' = [op EXCEPT ![p] =
                [name |-> name, commit |-> commit, recalc |-> recalc,
                 expiration |-> expiration, flag0 |-> flag0,
                 val0 |-> IF audit /\ name = "read" THEN m.val ELSE None,
                 exp0 |-> IF audit /\ name = "recalculate" THEN m.exp ELSE None,
                 after |-> trail, reflagged |-> FALSE, during |-> FALSE]]
    /\ trail' = NoTrail
    /\ calls' = [calls EXCEPT ![p] = <<>>]
    /\ jobs' = [jobs EXCEPT ![p] = 0]

\* _recalculate_FIELD, lines 65-67: the entry of a recalculation, shared by
\* the direct call, the read and the celery job.
BeginRecalculate(p, name, expiration, commit, m) ==
    /\ Started(p, name, commit, FALSE, expiration, m, m.flag)
    /\ pc' = [pc EXCEPT ![p] = "calc"]
    /\ IF commit
       THEN /\ db' = Update(db, PreClearKwargs)
            /\ upd' = [upd EXCEPT ![p] = <<PreClearKwargs>>]
       ELSE /\ db' = db
            /\ upd' = [upd EXCEPT ![p] = <<>>]
    /\ kw' = [kw EXCEPT ![p] = EmptyKwargs]
    /\ ret' = [ret EXCEPT ![p] = Value(None)]

\* model_object.recalculate_FIELD(expiration, commit).
recalculate_FIELD(p, expiration, commit) ==
    /\ pc[p] = "idle"
    /\ BeginRecalculate(p, "recalculate", expiration, commit, mem[p])
    /\ UNCHANGED <<settings, field, src, now, queue, mem, writer, audit,
                   model, mark>>

\* _get_FIELD, lines 88-97: the read of model_object.FIELD.
get_FIELD(p) ==
    /\ pc[p] = "idle"
    /\ IF EffectiveFlag(field.temporal_triggers, mem[p], now)
       THEN BeginRecalculate(p, "read", NoExpiration, TRUE, mem[p])
       ELSE /\ Started(p, "read", FALSE, FALSE, NoExpiration, mem[p], mem[p].flag)
            /\ pc' = [pc EXCEPT ![p] = "done"]
            /\ ret' = [ret EXCEPT ![p] = Value(mem[p].val)]
            /\ upd' = [upd EXCEPT ![p] = <<>>]
            /\ kw' = [kw EXCEPT ![p] = EmptyKwargs]
            /\ db' = db
    /\ UNCHANGED <<settings, field, src, now, queue, mem, writer, audit,
                   model, mark>>

\* offload_cache_recalculation, run by a celery worker: the record is loaded
\* again by primary key and recalculate_FIELD() is called on it.
offload_cache_recalculation(p) ==
    /\ pc[p] = "idle"
    /\ queue # <<>>
    /\ queue' = Tail(queue)
    /\ mem' = [mem EXCEPT ![p] = db]
    /\ BeginRecalculate(p, "job", NoExpiration, TRUE, db)
    /\ UNCHANGED <<settings, field, src, now, writer, audit, model, mark>>

\* _recalculate_FIELD, lines 68-81 (and 85 without commit): the calculation
\* method returns, the instance is updated, the change set is built.
Calculate(p) ==
    /\ pc[p] = "calc"
    /\ LET val == calculate_FIELD(src)
           kwargs == RecalculatedKwargs(field.temporal_triggers, mem[p],
                                        op[p].expiration,
                                        settings.DEFAULT_EXPIRATION, val,
                                        op[p].commit, now)
       IN  /\ mem' = [mem EXCEPT ![p] =
                         RecalculatedInstance(field.temporal_triggers, @,
                                              op[p].expiration,
                                              settings.DEFAULT_EXPIRATION,
                                              val, now)]
           /\ kw' = [kw EXCEPT ![p] = kwargs]
           /\ calls' = [calls EXCEPT ![p] = Append(@, [raised |-> FALSE, val |-> val])]
           /\ IF op[p].commit
              THEN /\ pc' = [pc EXCEPT ![p] = "write"]
                   /\ ret' = ret
                   /\ trail' = trail
              ELSE /\ pc' = [pc EXCEPT ![p] = "done"]
                   /\ ret' = [ret EXCEPT ![p] = Kwargs(kwargs)]
                   /\ trail' = TrailAfter(p, Kwargs(kwargs), db, queue)
    /\ mark' = IF mark.on THEN [mark EXCEPT !.calc[p] = TRUE] ELSE mark
    /\ UNCHANGED <<settings, field, db, src, now, queue, op, upd, jobs,
                   writer, audit, model>>

\* _recalculate_FIELD, line 68: the calculation method raises; nothing after
\* line 68 runs and the exception leaves recalculate_FIELD and the read.
CalculateRaises(p) ==
    /\ pc[p] = "calc"
    /\ pc' = [pc EXCEPT ![p] = "done"]
    /\ ret' = [ret EXCEPT ![p] = Raised]
    /\ calls' = [calls EXCEPT ![p] = Append(@, [raised |-> TRUE, val |-> None])]
    /\ trail' = TrailAfter(p, Raised, db, queue)
    /\ UNCHANGED <<settings, field, db, src, now, queue, mem, op, kw, upd,
                   jobs, writer, audit, model, mark>>

\* _recalculate_FIELD, lines 82-83, then for the read _get_FIELD, lines 96-97.
FinalUpdate(p) ==
    /\ pc[p] = "write"
    /\ db' = Update(db, kw[p])
    /\ upd' = [upd EXCEPT ![p] = Append(@, kw[p])]
    /\ writer' = IF "val" \in DOMAIN kw[p] THEN p ELSE writer
    /\ pc' = [pc EXCEPT ![p] = "done"]
    /\ ret' = [ret EXCEPT ![p] = Value(IF op[p].name = "read" THEN mem[p].val ELSE None)]
    /\ trail' = TrailAfter(p, Value(None), db', queue)
    /\ op' = [op EXCEPT ![p].reflagged = db.flag]
    /\ mark' = IF mark.on THEN [mark EXCEPT !.db = mark.calc[p]] ELSE mark
    /\ UNCHANGED <<settings, field, src, now, queue, mem, kw, calls, jobs,
                   audit, model>>

\* _flag_FIELD_as_stale, lines 21-32 (and 37 without commit): the flag is
\* read from the database, the change set is built.
Flagging(p, and_recalculate, eager, commit) ==
    /\ pc[p] = "idle"
    /\ LET recalc == ResolveAndRecalculate(and_recalculate, eager)
           already_flagged_for_recalculation == db.flag
           kwargs == FlagKwargs(already_flagged_for_recalculation)
       IN  /\ (commit /\ recalc) => Len(queue) + PendingJobs < MaxJobs
           /\ Started(p, "flag", commit, recalc, NoExpiration, mem[p],
                      already_flagged_for_recalculation)
           /\ mem' = [mem EXCEPT ![p] = Update(@, kwargs)]
           /\ kw' = [kw EXCEPT ![p] = kwargs]
           /\ pc' = [pc EXCEPT ![p] = AfterFlagging(commit)]
           /\ ret' = [ret EXCEPT ![p] = IF AfterFlagging(commit) = "done"
                                        THEN Kwargs(kwargs)
                                        ELSE Value(None)]
    /\ upd' = [upd EXCEPT ![p] = <<>>]
    /\ UNCHANGED <<settings, field, db, now, queue, writer, audit, model,
                   mark>>

\* model_object.flag_FIELD_as_stale(and_recalculate, commit).
flag_FIELD_as_stale(p, and_recalculate, eager, commit) ==
    /\ Flagging(p, and_recalculate, eager, commit)
    /\ src' = src

\* The application changes the data the calculation method reads and flags
\* the field of the record, with commit, right away.
SaveAndFlag(p, and_recalculate, eager) ==
    /\ \E d \in (1..MaxSrc) \ {src} : src' = d
    /\ Flagging(p, and_recalculate, eager, TRUE)

\* Mutants of trigger_cache_recalculation: no job while one is waiting; no
\* job at all.
trigger_unless_waiting(p, q) ==
    IF q = <<>> THEN Append(q, JobFor(model[p])) ELSE q
trigger_never(p, q) == q

\* trigger_cache_recalculation, lines 104-109.
trigger_cache_recalculation(p, q) == Append(q, JobFor(model[p]))

\* _flag_FIELD_as_stale, lines 33-37: the update, the job, the return.
FlagCommitted(p) ==
    /\ pc[p] = "flagged"
    /\ db' = Update(db, kw[p])
    /\ upd' = [upd EXCEPT ![p] = Append(@, kw[p])]
    /\ queue' = IF op[p].recalc THEN trigger_cache_recalculation(p, queue) ELSE queue
    /\ jobs' = [jobs EXCEPT ![p] = Len(queue') - Len(queue)]
    /\ pc' = [pc EXCEPT ![p] = "done"]
    /\ ret' = [ret EXCEPT ![p] = Kwargs(kw[p])]
    /\ trail' = TrailAfter(p, Kwargs(kw[p]), db', queue')
    /\ op' = [op EXCEPT ![p].during = \E q \in Proc \ {p} : InFlight(q)]
    /\ UNCHANGED <<settings, field, src, now, mem, kw, calls, writer,
                   audit, model>>

\* _flag_FIELD_as_stale, lines 33-37, of a flagging that is not followed.
FlagCommit(p) == FlagCommitted(p) /\ mark' = mark

\* _flag_FIELD_as_stale, lines 33-37, of the flagging with recalculation
\* that is followed from here on: nothing has been calculated after it yet.
FollowedFlagCommit(p) ==
    /\ ~mark.on
    /\ op[p].recalc
    /\ FlagCommitted(p)
    /\ mark' = [on |-> TRUE, db |-> FALSE, calc |-> [q \in Proc |-> FALSE]]

\* _expire_FIELD_after, lines 40-52; the method exists on the model only
\* with temporal triggers (lines 194-197).
expire_FIELD_after(p, expiration) ==
    /\ pc[p] = "idle"
    /\ field.temporal_triggers
    /\ LET e == ResolveExpiration(expiration, settings.DEFAULT_EXPIRATION, now)
       IN  /\ mem' = [mem EXCEPT ![p].exp = e]
           /\ db' = Update(db, [exp |-> e])
           /\ upd' = [upd EXCEPT ![p] = <<[exp |-> e]>>]
    /\ Started(p, "expire", TRUE, FALSE, expiration, mem[p], mem[p].flag)
    /\ pc' = [pc EXCEPT ![p] = "done"]
    /\ ret' = [ret EXCEPT ![p] = Value(None)]
    /\ kw' = [kw EXCEPT ![p] = EmptyKwargs]
    /\ UNCHANGED <<settings, field, src, now, queue, writer, audit, model,
                   mark>>

\* The caller has the result; the process is free for its next operation.
Return(p) ==
    /\ pc[p] = "done"
    /\ pc' = [pc EXCEPT ![p] = "idle"]
    /\ op' = [op EXCEPT ![p] = NoOp]
    /\ kw' = [kw EXCEPT ![p] = EmptyKwargs]
    /\ ret' = [ret EXCEPT ![p] = Value(None)]
    /\ upd' = [upd EXCEPT ![p] = <<>>]
    /\ calls' = [calls EXCEPT ![p] = <<>>]
    /\ jobs' = [jobs EXCEPT ![p] = 0]
    /\ UNCHANGED <<settings, field, db, src, now, queue, mem, writer, trail,
                   audit, model, mark>>

\* ------------------------------------------------------- specifications

\* Spec: one client process; its operations run one after the other, with
\* every setting and with the clock.
Next ==
    \/ Tick
    \/ ChangeSource
    \/ \E p \in Clients : Reload(p)
    \/ \E p \in Clients : get_FIELD(p)
    \/ \E p \in Clients, e \in ExpirationArgs, c \in BOOLEAN : recalculate_FIELD(p, e, c)
    \/ \E p \in Clients : offload_cache_recalculation(p)
    \/ \E p \in Clients : Calculate(p)
    \/ \E p \in Clients : CalculateRaises(p)
    \/ \E p \in Clients : FinalUpdate(p)
    \/ \E p \in Clients, a \in Tri, g \in EagerSettings, c \in BOOLEAN :
          flag_FIELD_as_stale(p, a, g, c)
    \/ \E p \in Clients : FlagCommit(p)
    \/ \E p \in Clients, e \in ExpirationArgs : expire_FIELD_after(p, e)
    \/ \E p \in Clients : Return(p)

Spec == Init /\ [][Next]_vars

\* SpecConc: all processes, their committing operations interleaved at the
\* database accesses, on a field without temporal triggers, without audit.
InitConc ==
    /\ settings = [DEFAULT_EXPIRATION |-> NoExpiration]
    /\ field = [temporal_triggers |-> FALSE]
    /\ db = [val |-> None, flag |-> TRUE, exp |-> None]
    /\ src = 1
    /\ now = 0
    /\ queue = <<>>
    /\ mem = [p \in Proc |-> db]
    /\ pc = [p \in Proc |-> "idle"]
    /\ op = [p \in Proc |-> NoOp]
    /\ kw = [p \in Proc |-> EmptyKwargs]
    /\ ret = [p \in Proc |-> Value(None)]
    /\ upd = [p \in Proc |-> <<>>]
    /\ calls = [p \in Proc |-> <<>>]
    /\ jobs = [p \in Proc |-> 0]
    /\ writer = 0
    /\ trail = NoTrail
    /\ audit = FALSE
    /\ model = [p \in Proc |-> ClassOf(p)]
    /\ mark = NoMark

NextConc ==
    \/ ChangeSource
    \/ \E p \in Requests : Reload(p)
    \/ \E p \in Requests : get_FIELD(p)
    \/ \E p \in Requests : recalculate_FIELD(p, NoExpiration, TRUE)
    \/ \E p \in Requests : offload_cache_recalculation(p)
    \/ \E p \in Requests : Calculate(p)
    \/ \E p \in Requests : CalculateRaises(p)
    \/ \E p \in Requests : FinalUpdate(p)
    \/ \E p \in Requests, a \in Tri, g \in EagerSettings :
          flag_FIELD_as_stale(p, a, g, TRUE)
    \/ \E p \in Requests : FlagCommit(p)
    \/ \E p \in Requests : Return(p)

SpecConc == InitConc /\ [][NextConc]_vars

\* ----------------------------------------------------------------- claims

\* Process p has completed an operation `name` and its caller has not yet
\* taken the result.
Done(p, name) == pc[p] = "done" /\ op[p].name = name

\* Process p has completed, without exception, a recalculation with commit:
\* a direct call, the one of a read, or the one of a celery job.
Recalculated(p) ==
    /\ pc[p] = "done"
    /\ op[p].name \in {"read", "recalculate", "job"}
    /\ op[p].commit
    /\ ret[p].kind # "raised"

\* The step taken is the one in which the calculation method of process p
\* returns (lines 68-81).
CalculateStep(p) == pc[p] = "calc" /\ Len(calls'[p]) = 1 /\ ~calls'[p][1].raised

\* The step taken is the one in which the calculation method of process p
\* raises (line 68).
RaiseStep(p) == pc[p] = "calc" /\ Len(calls'[p]) = 1 /\ calls'[p][1].raised

\* C1: a read on an instance whose in-memory flag is true, with the
\* calculation method returning V, invokes the method exactly once, returns
\* V, and leaves the flag false and the cached value V, in memory and in
\* the row.
C1_ReadOfFlaggedRecalculatesOnce ==
    \A p \in Proc :
        (Done(p, "read") /\ op[p].flag0 /\ ret[p].kind # "raised") =>
            /\ Len(calls[p]) = 1
            /\ ret[p].kind = "value"
            /\ ret[p].value = calls[p][1].val
            /\ mem[p].flag = FALSE
            /\ mem[p].val = calls[p][1].val
            /\ db.flag = FALSE
            /\ db.val = calls[p][1].val

\* C1, its case: a read of a flagged instance returned the value 2 where 1
\* was cached.
C1_Witness ==
    \E p \in Proc :
        /\ Done(p, "read") /\ op[p].flag0 /\ op[p].val0 = 1
        /\ ret[p].kind = "value" /\ ret[p].value = 2
        /\ db.val = 2

\* C2: a committed flagging without recalculation leaves the persisted flag
\* true; a second such flagging right after it returns the empty change set
\* (its update is the empty one) and the persisted flag is still true.
C2_SecondFlaggingIsEmpty ==
    \A p \in Proc :
        (Done(p, "flag") /\ op[p].commit /\ ~op[p].recalc) =>
            /\ db.flag = TRUE
            /\ op[p].after.tag = "flagNR" =>
                  /\ ret[p].kind = "kwargs"
                  /\ DOMAIN ret[p].kwargs = {}
                  /\ Len(upd[p]) = 1
                  /\ DOMAIN upd[p][1] = {}

\* C2, its case: the second of two successive flaggings has completed.
C2_Witness ==
    \E p \in Proc :
        /\ Done(p, "flag") /\ op[p].commit /\ ~op[p].recalc
        /\ op[p].after.tag = "flagNR"
        /\ ret[p].kind = "kwargs"

\* C3: every committed flagging whose and_recalculate resolves to true
\* gives exactly one job for the record to celery, whether the persisted
\* flag was already true or not; no job is dropped as a duplicate of one
\* that is still waiting.
C3_EveryEagerFlaggingSubmitsOneJob ==
    \A p \in Proc :
        (Done(p, "flag") /\ op[p].commit /\ op[p].recalc) =>
            /\ jobs[p] = 1
            /\ queue # <<>>
            /\ queue[Len(queue)].pk = 1
            /\ queue[Len(queue)].obj_name = "Article"

\* C3, its case: a flagging that found the flag already true (empty change
\* set) has submitted the second of two waiting jobs.
C3_Witness ==
    \E p \in Proc :
        /\ Done(p, "flag") /\ op[p].commit /\ op[p].recalc /\ op[p].flag0
        /\ DOMAIN ret[p].kwargs = {}
        /\ Len(queue) = 2

\* Process p, between operations, holds an instance with the flag false and
\* an expiration before the clock, on a field with temporal triggers.
HoldsExpired(p) ==
    /\ pc[p] = "idle"
    /\ field.temporal_triggers
    /\ ~mem[p].flag
    /\ mem[p].exp # None
    /\ mem[p].exp < now

\* The read of p is recalculating, or has recalculated, an instance whose
\* flag was false when the read began.
ExpiredRead(p) ==
    /\ op[p].name = "read"
    /\ pc[p] # "idle"
    /\ op[p].commit
    /\ ~op[p].flag0

\* In a read of p that recalculates an instance whose flag was false, the
\* flag is nowhere true and the fresh value is the one returned and stored.
ExpiredReadDoesNotFlag ==
    \A p \in Proc :
        ExpiredRead(p) =>
            /\ field.temporal_triggers
            /\ mem[p].flag = FALSE
            /\ db.flag = FALSE
            /\ \A i \in 1..Len(upd[p]) :
                  "flag" \in DOMAIN upd[p][i] => upd[p][i].flag = FALSE
            /\ (pc[p] = "done" /\ ret[p].kind # "raised") =>
                  /\ Len(calls[p]) = 1
                  /\ ret[p].kind = "value"
                  /\ ret[p].value = calls[p][1].val
                  /\ mem[p].val = calls[p][1].val
                  /\ db.val = calls[p][1].val

\* A read that begins on an expired, unflagged instance begins the
\* recalculation, without flagging the instance.
ExpiredReadBeginsRecalculation ==
    \A p \in Proc :
        (HoldsExpired(p) /\ op'[p].name = "read") =>
            /\ pc'[p] = "calc"
            /\ ExpiredRead(p)'
            /\ mem'[p] = mem[p]

\* C4: with temporal triggers, a read on an instance whose flag is false and
\* whose expiration is before the clock recalculates as a read of a flagged
\* instance does (one invocation, the fresh value is returned and stored),
\* and at no step of it is the flag written as true, to the row or to the
\* instance.
C4_ExpiredReadRecalculatesWithoutFlagging ==
    /\ []ExpiredReadDoesNotFlag
    /\ [][ExpiredReadBeginsRecalculation]_vars

\* C4, its case: an expired read has returned the fresh value 2 where 1 was
\* cached.
C4_Witness ==
    \E p \in Proc :
        /\ ExpiredRead(p) /\ pc[p] = "done"
        /\ op[p].val0 = 1
        /\ ret[p].kind = "value" /\ ret[p].value = 2

\* What a completed direct recalculation has issued and returned: without
\* commit no update and the change set, with the value and the flag as
\* False; with commit the clearing of the flag, then the value without the
\* flag.
RecalculationChangeSet ==
    \A p \in Proc :
        (Done(p, "recalculate") /\ ret[p].kind # "raised") =>
            /\ Len(calls[p]) = 1
            /\ IF ~op[p].commit
               THEN /\ upd[p] = <<>>
                    /\ ret[p].kind = "kwargs"
                    /\ {"val", "flag"} \subseteq DOMAIN ret[p].kwargs
                    /\ DOMAIN ret[p].kwargs \subseteq {"val", "flag", "exp"}
                    /\ ret[p].kwargs.val = calls[p][1].val
                    /\ ret[p].kwargs.flag = FALSE
                    /\ "exp" \in DOMAIN ret[p].kwargs =>
                          ret[p].kwargs.exp = mem[p].exp
               ELSE /\ Len(upd[p]) = 2
                    /\ DOMAIN upd[p][1] = {"flag"}
                    /\ upd[p][1].flag = FALSE
                    /\ "flag" \notin DOMAIN upd[p][2]
                    /\ "val" \in DOMAIN upd[p][2]
                    /\ upd[p][2].val = calls[p][1].val
                    /\ "exp" \in DOMAIN upd[p][2] =>
                          upd[p][2].exp = mem[p].exp

\* No step of an uncommitted direct recalculation changes the row or the
\* queue; the step in which the calculation method returns puts the
\* expiration into the change set exactly when it assigns one, that is
\* with temporal triggers and the instance's expiration null or past.
RecalculationSteps ==
    \A p \in Proc :
        /\ (op'[p].name = "recalculate" /\ ~op'[p].commit) =>
              (db' = db /\ queue' = queue)
        /\ (CalculateStep(p) /\ op[p].name = "recalculate") =>
              /\ ("exp" \in DOMAIN kw'[p]) =
                    /\ field.temporal_triggers
                    /\ (mem[p].exp = None \/ mem[p].exp < now)
              /\ "exp" \notin DOMAIN kw'[p] => mem'[p].exp = mem[p].exp
              /\ ~op[p].commit => ret'[p] = Kwargs(kw'[p])

\* C5: recalculate_FIELD(commit=False) issues no update, leaves the row as
\* it was and returns the change set: the new value, the flag as False and
\* the expiration exactly when the recalculation assigned one; with
\* commit=True the final update carries the value and not the flag, which
\* the first update of the operation had already set to False.
C5_UncommittedRecalculationReturnsChanges ==
    /\ []RecalculationChangeSet
    /\ [][RecalculationSteps]_vars

\* C5, its case: an uncommitted recalculation on a flagged row has returned
\* a change set with an expiration.
C5_Witness ==
    \E p \in Proc :
        /\ Done(p, "recalculate") /\ ~op[p].commit
        /\ ret[p].kind = "kwargs"
        /\ "exp" \in DOMAIN ret[p].kwargs
        /\ db.flag = TRUE

\* The recalculation C6 is about: committed, temporal triggers on, a default
\* offset in the settings, no expiration argument, no expiration on the
\* instance.
DefaultedExpiration(p) ==
    /\ op[p].name = "recalculate" /\ op[p].commit
    /\ field.temporal_triggers
    /\ settings.DEFAULT_EXPIRATION.kind = "rel"
    /\ op[p].expiration.kind = "none"
    /\ op[p].exp0 = None

\* C6 as stated: one single update persists the new expiration together
\* with the new value and the cleared flag.
C6_Original ==
    \A p \in Proc :
        (DefaultedExpiration(p) /\ pc[p] = "done" /\ ret[p].kind # "raised") =>
            LET u == upd[p][Len(upd[p])]
            IN  /\ DOMAIN u = {"val", "flag", "exp"}
                /\ u.exp = mem[p].exp
                /\ u.val = calls[p][1].val
                /\ u.flag = FALSE

\* Such a recalculation, completed, has issued the clearing of the flag and
\* then one update with the new value and the new expiration and no flag.
DefaultedExpirationPersisted ==
    \A p \in Proc :
        (DefaultedExpiration(p) /\ pc[p] = "done" /\ ret[p].kind # "raised") =>
            /\ Len(upd[p]) = 2
            /\ DOMAIN upd[p][1] = {"flag"}
            /\ upd[p][1].flag = FALSE
            /\ DOMAIN upd[p][2] = {"val", "exp"}
            /\ upd[p][2].exp = mem[p].exp
            /\ upd[p][2].val = calls[p][1].val
            /\ db = [val |-> calls[p][1].val, flag |-> FALSE,
                     exp |-> mem[p].exp]

\* In such a recalculation the step in which the calculation method returns
\* sets the expiration to the clock of that step plus the default offset.
DefaultedExpirationIsClockPlusOffset ==
    \A p \in Proc :
        (DefaultedExpiration(p) /\ CalculateStep(p)) =>
            mem'[p].exp = now + settings.DEFAULT_EXPIRATION.v

\* C6, amended: the new expiration is the clock (read once the calculation
\* method has returned) plus the default offset; the final update persists
\* it together with the new value only, the flag having been cleared by the
\* operation's first update.
C6_ExpirationPersistedWithValue ==
    /\ []DefaultedExpirationPersisted
    /\ [][DefaultedExpirationIsClockPlusOffset]_vars

\* C6, its case: such a recalculation at time 1 has set the expiration 2.
C6_Witness ==
    \E p \in Proc :
        /\ DefaultedExpiration(p) /\ pc[p] = "done" /\ ret[p].kind # "raised"
        /\ now = 1
        /\ db.exp = 2

\* Once the calculation method has raised, the caller has the exception and
\* the operation has issued the clearing of the flag (with commit) and
\* nothing else.
FailedCalculationUpdates ==
    \A p \in Proc :
        (pc[p] = "done" /\ Len(calls[p]) = 1 /\ calls[p][1].raised) =>
            /\ ret[p].kind = "raised"
            /\ IF op[p].commit
               THEN /\ Len(upd[p]) = 1
                    /\ DOMAIN upd[p][1] = {"flag"}
                    /\ upd[p][1].flag = FALSE
                    /\ db.flag = FALSE
               ELSE upd[p] = <<>>

\* The step that begins a recalculation changes nothing of the row but the
\* flag, which it sets to false, and that with commit only; the step in
\* which the calculation method raises changes neither the row nor the
\* instance.
FailedCalculationSteps ==
    \A p \in Proc :
        /\ (pc[p] = "idle" /\ pc'[p] = "calc") =>
              db' = IF op'[p].commit THEN [db EXCEPT !.flag = FALSE] ELSE db
        /\ RaiseStep(p) => (db' = db /\ mem' = mem /\ upd' = upd)

\* C7: when the calculation method raises, the caller of the recalculation
\* or of the read gets the exception; with commit the operation has issued
\* the clearing of the flag and nothing else, so the row has the flag false
\* and the value and expiration it had before; without commit the operation
\* has issued no update and the row is as it was.
C7_FailedCalculationPersistsOnlyThePreClear ==
    /\ []FailedCalculationUpdates
    /\ [][FailedCalculationSteps]_vars

\* C7, its case: the calculation raised in a read of a flagged instance
\* whose row keeps a value and an expiration.
C7_Witness ==
    \E p \in Proc :
        /\ Done(p, "read") /\ ret[p].kind = "raised"
        /\ op[p].flag0 /\ op[p].val0 = 1
        /\ db = [val |-> 1, flag |-> FALSE, exp |-> 1]

\* C8: without temporal triggers, a committed flagging with recalculation on
\* a row whose flag is false returns {flag: True}, persists it and submits
\* one job; a read by that instance before the job runs recalculates; the
\* job then recalculates again and, the source data not having changed,
\* leaves the row with the value and the flag the read left.
C8_JobAfterReadIsRedundant ==
    \A p \in Proc :
        /\ (Done(p, "flag") /\ op[p].commit /\ op[p].recalc /\ ~op[p].flag0
              /\ ~field.temporal_triggers) =>
              /\ ret[p].kind = "kwargs"
              /\ DOMAIN ret[p].kwargs = {"flag"}
              /\ ret[p].kwargs.flag = TRUE
              /\ db.flag = TRUE
              /\ jobs[p] = 1
        /\ (Done(p, "read") /\ op[p].after.tag = "flagE") =>
              /\ Len(calls[p]) = 1
              /\ queue # <<>>
        /\ (Done(p, "job") /\ op[p].after.tag = "flagE.read"
              /\ ret[p].kind # "raised") =>
              /\ Len(calls[p]) = 1
              /\ db.val = op[p].after.val
              /\ db.flag = FALSE

\* C8, its case: the job of the scenario has completed after the read.
C8_Witness ==
    \E p \in Proc :
        /\ Done(p, "job") /\ op[p].after.tag = "flagE.read"
        /\ ret[p].kind # "raised"
        /\ db.val = 2

\* C9: when two committed recalculations of the same record have both
\* completed, however their steps interleaved, the persisted flag is false
\* and the persisted value is the one calculated by the recalculation whose
\* final update came last.
C9_LastFinalUpdateWins ==
    \A p, q \in Proc :
        (p # q /\ Recalculated(p) /\ Recalculated(q)) =>
            /\ db.flag = FALSE
            /\ writer \in {p, q}
            /\ db.val = calls[writer][1].val

\* C9, its case: process 1 calculated 1, process 2 calculated 2, and the
\* final update of process 1 came last.
C9_Witness ==
    /\ Recalculated(1) /\ Recalculated(2)
    /\ calls[1][1].val = 1 /\ calls[2][1].val = 2
    /\ writer = 1

\* C10: a read on an instance whose cached value is None invokes the
\* calculation method, whatever the flag.
C10_ReadOfNoneRecalculates ==
    \A p \in Proc :
        (Done(p, "read") /\ op[p].val0 = None) => Len(calls[p]) >= 1

\* A completed flagging without commit has issued no update and submitted
\* no job; it has returned {flag: True} when the flag read from the row was
\* false and the empty change set otherwise.
UncommittedFlaggingReturnsChanges ==
    \A p \in Proc :
        (Done(p, "flag") /\ ~op[p].commit) =>
            /\ upd[p] = <<>>
            /\ jobs[p] = 0
            /\ ret[p].kind = "kwargs"
            /\ DOMAIN ret[p].kwargs = IF op[p].flag0 THEN {} ELSE {"flag"}
            /\ ~op[p].flag0 => (ret[p].kwargs.flag = TRUE /\ mem[p].flag)

\* The flagging without commit is one step: it leaves the row and the queue
\* alone, and on the instance it sets the flag, and nothing else, when the
\* row's flag is false, and nothing at all when it is true.
UncommittedFlaggingStep ==
    \A p \in Proc :
        (pc[p] = "idle" /\ op'[p].name = "flag" /\ ~op'[p].commit) =>
            /\ pc'[p] = "done"
            /\ db' = db
            /\ queue' = queue
            /\ mem'[p] = IF db.flag THEN mem[p]
                         ELSE [mem[p] EXCEPT !.flag = TRUE]

\* C11: flag_FIELD_as_stale(commit=False) issues no update and submits no
\* job, also when and_recalculate is true; it returns the change set
\* ({flag: True} when the persisted flag was false, empty otherwise) and
\* sets the in-memory flag to true exactly when that set is not empty.
C11_UncommittedFlaggingWritesNothing ==
    /\ []UncommittedFlaggingReturnsChanges
    /\ [][UncommittedFlaggingStep]_vars

\* C11, its case: a flagging without commit and with recalculation, of a
\* row whose flag is false, has returned {flag: True}; the row's flag is
\* still false and no job waits.
C11_Witness ==
    \E p \in Proc :
        /\ Done(p, "flag") /\ ~op[p].commit /\ op[p].recalc
        /\ DOMAIN ret[p].kwargs = {"flag"}
        /\ mem[p].flag /\ ~db.flag
        /\ queue = <<>>

\* The expiration C12 states for an argument and a default at time t: the
\* argument when one is given, else the default; an offset is added to the
\* clock, a datetime is taken as it is.
StatedExpiration(expiration, default, t) ==
    LET e == IF expiration.kind # "none" THEN expiration ELSE default
    IN  IF e.kind = "none" THEN None
        ELSE IF e.kind = "abs" THEN e.v
        ELSE t + e.v

\* expire_FIELD_after is one step that changes the expiration slot of the
\* instance and of the row to e, with one update of that slot alone, and
\* nothing else: not the flag, not the cached value, no calculation, no job.
ExpireAfterAssigns(p, e) ==
    /\ pc'[p] = "done"
    /\ mem'[p] = [mem[p] EXCEPT !.exp = e]
    /\ db' = [db EXCEPT !.exp = e]
    /\ upd'[p] = <<[exp |-> e]>>
    /\ calls'[p] = <<>>
    /\ queue' = queue

\* C12: expire_FIELD_after assigns the resolved expiration (the explicit
\* argument, else the default; an offset added to the clock, a datetime as
\* it is) in memory and persists the expiration slot alone; flag and cached
\* value stay as they are in memory and in the row, nothing is calculated,
\* no job is submitted.
C12_ExpireAfterAssignsStatedExpiration ==
    [][\A p \in Proc :
          (pc[p] = "idle" /\ op'[p].name = "expire") =>
              ExpireAfterAssigns(p,
                  StatedExpiration(op'[p].expiration,
                                   settings.DEFAULT_EXPIRATION, now))]_vars

\* SpecNaming: one client whose instance is of any of the model classes, on
\* a field without temporal triggers; its committed flaggings submit jobs,
\* which are run.
InitNaming ==
    /\ settings = [DEFAULT_EXPIRATION |-> NoExpiration]
    /\ field = [temporal_triggers |-> FALSE]
    /\ db = [val |-> None, flag |-> TRUE, exp |-> None]
    /\ src = 1
    /\ now = 0
    /\ queue = <<>>
    /\ mem = [p \in Proc |-> db]
    /\ pc = [p \in Proc |-> "idle"]
    /\ op = [p \in Proc |-> NoOp]
    /\ kw = [p \in Proc |-> EmptyKwargs]
    /\ ret = [p \in Proc |-> Value(None)]
    /\ upd = [p \in Proc |-> <<>>]
    /\ calls = [p \in Proc |-> <<>>]
    /\ jobs = [p \in Proc |-> 0]
    /\ writer = 0
    /\ trail = NoTrail
    /\ audit = FALSE
    /\ \E cls \in Classes :
          model = [p \in Proc |-> IF p \in Clients THEN cls ELSE ClassOf(p)]
    /\ mark = NoMark

NextNaming ==
    \/ ChangeSource
    \/ \E p \in Clients : get_FIELD(p)
    \/ \E p \in Clients : offload_cache_recalculation(p)
    \/ \E p \in Clients : Calculate(p)
    \/ \E p \in Clients : FinalUpdate(p)
    \/ \E p \in Clients, a \in Tri, g \in EagerSettings :
          flag_FIELD_as_stale(p, a, g, TRUE)
    \/ \E p \in Clients : FlagCommit(p)
    \/ \E p \in Clients : Return(p)

SpecNaming == InitNaming /\ [][NextNaming]_vars

\* The concrete model class a class stands for: itself, or what the class
\* it is a proxy of stands for.
RECURSIVE Canonical(_)
Canonical(cls) ==
    IF Meta[cls].proxy THEN Canonical(Meta[cls].proxy_for_model) ELSE cls

\* C13: the job that trigger_cache_recalculation submits names the
\* concrete model class (its application and its name) for an instance of
\* every class that is a proxy of it, a proxy of a proxy and a proxy
\* declared in another application included, and carries the primary key
\* of the record and the celery_async_kwargs of the field as they are.
C13_JobNamesCanonicalType ==
    \A p \in Proc :
        (Done(p, "flag") /\ op[p].commit /\ op[p].recalc) =>
            /\ queue # <<>>
            /\ queue[Len(queue)] =
                  [app_label |-> Meta[Canonical(model[p])].app_label,
                   obj_name |-> Meta[Canonical(model[p])].object_name,
                   pk |-> Pk,
                   kwargs |-> CeleryAsyncKwargs]

\* The flagging of q found the row's flag false and committed {flag: True}
\* while the committed recalculation of p was between its first and its
\* final update, and that final update has been issued since.
FlaggedInFlight(p, q) ==
    /\ p # q
    /\ Done(q, "flag") /\ op[q].commit /\ ~op[q].flag0 /\ op[q].during
    /\ Recalculated(p) /\ op[p].reflagged

\* C14: a committed flagging that finds the persisted flag false and sets it
\* while a committed recalculation of the same record is between its first
\* and its final update is not lost: the final update does not write the
\* flag, which is still true after it.
C14_FlaggingInFlightIsKept ==
    /\ [](\A p, q \in Proc : FlaggedInFlight(p, q) => db.flag = TRUE)
    /\ [][\A p \in Proc :
             (pc[p] = "write" /\ pc'[p] = "done") =>
                 /\ "flag" \notin DOMAIN upd'[p][Len(upd'[p])]
                 /\ db'.flag = db.flag]_vars

\* C14, its case: the recalculation of process 1 has written the value it
\* calculated after process 2 flagged the record in between.
C14_Witness ==
    /\ FlaggedInFlight(1, 2)
    /\ db.val = calls[1][1].val
    /\ db.flag = TRUE

\* SpecRace: all processes on a field without temporal triggers and with a
\* calculation method that never raises; the source data changes only
\* together with a committed flagging; reads and celery jobs interleave
\* with the flaggings at the database accesses.
NextRace ==
    \/ \E p \in Requests, a \in Tri, g \in EagerSettings : SaveAndFlag(p, a, g)
    \/ \E p \in Requests : Reload(p)
    \/ \E p \in Requests : get_FIELD(p)
    \/ \E p \in Requests : offload_cache_recalculation(p)
    \/ \E p \in Requests : Calculate(p)
    \/ \E p \in Requests : FinalUpdate(p)
    \/ \E p \in Requests : FlagCommit(p)
    \/ \E p \in Requests : Return(p)

SpecRace == InitConc /\ [][NextRace]_vars

\* C15: with every change of the source data followed by a committed
\* flagging, and reads and celery jobs interleaved in any way, whenever no
\* operation is in progress (and no job waits to be run) and the persisted
\* flag is false, the persisted cached value is what the calculation method
\* gives for the current source data.
C15_NoLostInvalidation ==
    (/\ \A p \in Proc : pc[p] \in {"idle", "done"}
     /\ queue = <<>>
     /\ ~db.flag) =>
        db.val = calculate_FIELD(src)

\* C16: once a committed flagging has returned, the flag of the instance it
\* was called on is true (so that the next read of that instance
\* recalculates), whatever the instance and the row were before, an
\* instance with the flag false on a row that another instance has flagged
\* included.
C16_FlaggedInstanceHasFlagTrue ==
    \A p \in Proc :
        (Done(p, "flag") /\ op[p].commit) => mem[p].flag = TRUE

\* SpecLive: a field without temporal triggers and a calculation method
\* that never raises.  Process 1 reloads and reads, process 2 flags (with
\* commit, with or without recalculation), the celery worker runs the jobs.
\* One of the flaggings with recalculation is followed.  The executor runs
\* every job it was given, and the worker completes what it began: weak
\* fairness of the steps of the worker.
InitLive == InitConc

NextLive ==
    \/ Reload(1)
    \/ get_FIELD(1)
    \/ Calculate(1)
    \/ FinalUpdate(1)
    \/ Return(1)
    \/ \E a \in Tri, g \in EagerSettings : flag_FIELD_as_stale(2, a, g, TRUE)
    \/ FlagCommit(2)
    \/ FollowedFlagCommit(2)
    \/ Return(2)
    \/ \E w \in Workers : offload_cache_recalculation(w)
    \/ \E w \in Workers : Calculate(w)
    \/ \E w \in Workers : FinalUpdate(w)
    \/ \E w \in Workers : Return(w)

SpecLive ==
    /\ InitLive
    /\ [][NextLive]_vars
    /\ \A w \in Workers :
          /\ WF_vars(offload_cache_recalculation(w))
          /\ WF_vars(Calculate(w))
          /\ WF_vars(FinalUpdate(w))
          /\ WF_vars(Return(w))

\* The persisted flag is false and the persisted cached value was
\* calculated after the flagging that is followed (mark.db is true only
\* after that flagging).
RecalculatedSince == mark.on /\ ~db.flag /\ mark.db

\* A committed flagging without recalculation has just returned.
LazyFlagging ==
    \E p \in Proc : Done(p, "flag") /\ op[p].commit /\ ~op[p].recalc

\* C17 as stated: after a committed flagging with recalculation the record
\* reaches a state in which the persisted flag is false and the persisted
\* cached value was calculated after that flagging.
C17_Original == (<>mark.on) => <>RecalculatedSince

\* C17, amended: so it is when no flagging without recalculation is
\* committed.
C17_EagerFlaggingIsRecalculated ==
    ([]~LazyFlagging /\ <>mark.on) => <>RecalculatedSince

\* C17, its case: the value calculated by the job of the followed flagging
\* is in the row and the flag is false.
C17_Witness ==
    /\ RecalculatedSince
    /\ \E w \in Workers : Done(w, "job") /\ writer = w

\* The instance of p has, on a field with temporal triggers, an expiration
\* that is not before the clock.
HoldsUnexpired(p) ==
    /\ field.temporal_triggers
    /\ mem[p].exp # None
    /\ mem[p].exp >= now

\* The step in which the calculation method returns keeps an unexpired
\* expiration on the instance and out of the change set, and touches no
\* row; it puts an expiration into the change set only with temporal
\* triggers and an expiration that is null or before the clock.  The final
\* update of a change set without expiration leaves the row's expiration.
UnexpiredExpirationSteps ==
    \A p \in Proc :
        /\ (CalculateStep(p) /\ HoldsUnexpired(p)) =>
              /\ mem'[p].exp = mem[p].exp
              /\ "exp" \notin DOMAIN kw'[p]
              /\ db' = db
        /\ (CalculateStep(p) /\ ~HoldsUnexpired(p)) =>
              IF field.temporal_triggers
              THEN "exp" \in DOMAIN kw'[p] /\ kw'[p].exp = mem'[p].exp
              ELSE "exp" \notin DOMAIN kw'[p] /\ mem'[p].exp = mem[p].exp
        /\ (pc[p] = "write" /\ pc'[p] = "done" /\ "exp" \notin DOMAIN kw[p]) =>
              db'.exp = db.exp

\* What a completed recalculation has returned (without commit) or issued
\* last (with commit) is the change set that step has built.
ChangeSetIsIssued ==
    \A p \in Proc :
        (pc[p] = "done" /\ Len(calls[p]) = 1 /\ ~calls[p][1].raised) =>
            IF op[p].commit
            THEN upd[p][Len(upd[p])] = kw[p]
            ELSE ret[p] = Kwargs(kw[p])

\* C18: with temporal triggers, a recalculation of an instance whose
\* expiration is not null and not before the clock leaves the expiration as
\* it is, in memory and in the row, and out of the change set, also when an
\* expiration argument is given; an expiration is assigned only when the
\* current one is null or before the clock.
C18_UnexpiredExpirationIsKept ==
    /\ []ChangeSetIsIssued
    /\ [][UnexpiredExpirationSteps]_vars

\* C18, its case: a committed recalculation with the argument "at time 1"
\* on an instance and a row that expire at time 2 has left that expiration.
C18_Witness ==
    \E p \in Proc :
        /\ Done(p, "recalculate") /\ op[p].commit /\ ret[p].kind # "raised"
        /\ op[p].expiration = Abs(1)
        /\ op[p].exp0 = 2
        /\ mem[p].exp = 2 /\ db.exp = 2
        /\ "exp" \notin DOMAIN kw[p]

\* Process p, between operations, holds an instance with the flag false and
\* no expiration in effect: no temporal triggers, or no expiration, or an
\* expiration that is not before the clock.
HoldsFresh(p) ==
    /\ pc[p] = "idle"
    /\ ~mem[p].flag
    /\ \/ ~field.temporal_triggers
       \/ mem[p].exp = None
       \/ mem[p].exp >= now

CommittedRow(row, m, expiration, val, t) ==
    Update(Update(row, PreClearKwargs),
           RecalculatedKwargs(field.temporal_triggers, m, expiration,
                              settings.DEFAULT_EXPIRATION, val, TRUE, t))

\* The steps of a committed recalculation are those updates: the first
\* step issues the first update, the step in which the calculation method
\* returns builds the change set and the instance, the last step issues
\* the update with that change set.
CommittedRecalculationSteps ==
    \A p \in Proc :
        /\ (pc[p] = "idle" /\ pc'[p] = "calc" /\ op'[p].commit) =>
              /\ db' = Update(db, PreClearKwargs)
              /\ op'[p].name = "recalculate" => mem'[p] = mem[p]
        /\ (CalculateStep(p) /\ op[p].commit) =>
              /\ db' = db
              /\ kw'[p] = RecalculatedKwargs(field.temporal_triggers, mem[p],
                                             op[p].expiration,
                                             settings.DEFAULT_EXPIRATION,
                                             calls'[p][1].val, TRUE, now)
              /\ mem'[p] = RecalculatedInstance(field.temporal_triggers,
                                                mem[p], op[p].expiration,
                                                settings.DEFAULT_EXPIRATION,
                                                calls'[p][1].val, now)
        /\ (pc[p] = "write" /\ pc'[p] = "done") =>
              (db' = Update(db, kw[p]) /\ mem'[p] = mem[p])

\* When the calculation method returns in a recalculation without commit
\* (which has left row and instance as they were), the row with the
\* returned change set persisted is the row of the committed recalculation
\* from the same row and instance, with the same value and clock, and the
\* instance is the instance of that recalculation.
UncommittedThenPersisted ==
    \A p \in Proc :
        /\ (pc[p] = "idle" /\ pc'[p] = "calc" /\ ~op'[p].commit) =>
              (db' = db /\ mem'[p] = mem[p])
        /\ (CalculateStep(p) /\ ~op[p].commit) =>
              /\ pc'[p] = "done"
              /\ db' = db
              /\ ret'[p].kind = "kwargs"
              /\ Update(db, ret'[p].kwargs) =
                    CommittedRow(db, mem[p], op[p].expiration,
                                 calls'[p][1].val, now)
              /\ mem'[p] = RecalculatedInstance(field.temporal_triggers,
                                                mem[p], op[p].expiration,
                                                settings.DEFAULT_EXPIRATION,
                                                calls'[p][1].val, now)

\* C20: with no other operation in between, recalculate_FIELD(commit=False)
\* followed by an update with exactly the returned change set leaves the
\* row and the instance (cached value, flag, expiration) as
\* recalculate_FIELD(commit=True) does from the same state, with the same
\* calculated value and clock.
C20_UncommittedThenPersistedIsCommitted ==
    /\ [][CommittedRecalculationSteps]_vars
    /\ [][UncommittedThenPersisted]_vars

\* C20, its case: a recalculation without commit has returned a change set
\* that differs from the row in the value, the flag and the expiration.
C20_Witness ==
    \E p \in Proc :
        /\ Done(p, "recalculate") /\ ~op[p].commit
        /\ ret[p].kind = "kwargs"
        /\ "exp" \in DOMAIN ret[p].kwargs
        /\ db.val = 1 /\ ret[p].kwargs.val = 2
        /\ db.flag /\ ~ret[p].kwargs.flag
        /\ db.exp # None /\ ret[p].kwargs.exp # db.exp

====
